---- MODULE Spec2Model ----
(***************************************************************************)
(* The branch / commit data model of app/src/lib/vbranches/types.ts:       *)
(* Commit.status, commitCompare, the derived collections of Branch,        *)
(* RemoteBranchData and LocalFile, and the forge / URL resolution of       *)
(* BaseBranch (the pushRemoteUrl transform, afterTransform, commitUrl and  *)
(* branchUrl).                                                             *)
(*                                                                         *)
(* JavaScript strings are TLA+ strings (\o, Len and SubSeq act on them).   *)
(* An optional value (T | undefined) is a sequence of length at most one:  *)
(* None is undefined, Some(v) is the value v.                              *)
(***************************************************************************)
EXTENDS Integers, Sequences, FiniteSets, TLC

VARIABLES
    branch,            \* the Branch instance under inspection
    remoteBranchData,  \* the RemoteBranchData instance under inspection
    localFile,         \* the LocalFile instance under inspection
    baseBranch,        \* the BaseBranch instance (fields and lifecycle phase)
    call,              \* the last operation performed, with its arguments
    ret                \* what that operation returned

vars == <<branch, remoteBranchData, localFile, baseBranch, call, ret>>

None == <<>>
Some(v) == <<v>>

\* An instance of a class the running specification does not exercise.
NoObject == [class |-> "none"]

(***************************************************************************)
(* Strings                                                                 *)
(***************************************************************************)

\* String.prototype.includes
Includes(s, sub) ==
    \E i \in 1..(Len(s) - Len(sub) + 1) : SubSeq(s, i, i + Len(sub) - 1) = sub

\* String.prototype.startsWith
StartsWith(s, prefix) ==
    Len(s) >= Len(prefix) /\ SubSeq(s, 1, Len(prefix)) = prefix

\* String.prototype.slice(n), n >= 0
SliceStr(s, n) == SubSeq(s, n + 1, Len(s))

\* String.prototype.split(sep) for a one-character separator: the sequence
\* of the segments between separators (always at least one segment).
RECURSIVE SplitFrom(_, _, _, _)
SplitFrom(s, sep, i, start) ==
    IF i > Len(s) THEN <<SubSeq(s, start, Len(s))>>
    ELSE IF SubSeq(s, i, i) = sep
         THEN <<SubSeq(s, start, i - 1)>> \o SplitFrom(s, sep, i + 1, i + 1)
         ELSE SplitFrom(s, sep, i + 1, start)

Split(s, sep) == SplitFrom(s, sep, 1, 1)

\* Array.prototype.join(sep) on a sequence of strings
RECURSIVE Join(_, _)
Join(parts, sep) ==
    IF Len(parts) = 0 THEN ""
    ELSE IF Len(parts) = 1 THEN parts[1]
    ELSE parts[1] \o sep \o Join(Tail(parts), sep)

\* Array.prototype.slice(n), n >= 0
SliceSeq(seq, n) == SubSeq(seq, n + 1, Len(seq))

\* arr[i] for a zero-based index: undefined past the end
At(seq, i) == IF i + 1 <= Len(seq) THEN Some(seq[i + 1]) ELSE None

\* How a template literal `${v}` renders an optional string
Render(opt) == IF opt = None THEN "undefined" ELSE opt[1]

\* All sequences over S of length at most n
SeqsUpTo(S, n) == UNION {[1..k -> S] : k \in 0..n}

(***************************************************************************)
(* Commit, RemoteCommit, commitCompare                                     *)
(***************************************************************************)

MaxCommits == 2

CommitIds == {"a1", "b2"}
ChangeIds == {"", "x", "y"}

\* RemoteCommit as referenced by Commit.relatedTo
RemoteCommits == [class : {"RemoteCommit"}, id : CommitIds, changeId : ChangeIds]

\* The commits of a Branch (changeId plays no part in status)
Commits ==
    [class : {"Commit"}, id : CommitIds, changeId : {""},
     isRemote : BOOLEAN, isIntegrated : BOOLEAN,
     relatedTo : {None} \cup {Some(r) : r \in {x \in RemoteCommits : x.changeId = ""}}]

\* AnyCommit as commitCompare sees it: a Commit or a RemoteCommit
AnyCommits ==
    RemoteCommits \cup
    [class : {"Commit"}, id : CommitIds, changeId : ChangeIds,
     isRemote : {FALSE}, isIntegrated : {FALSE}, relatedTo : {None}]

statusSwapped(c) ==
    IF c.isRemote /\ (c.relatedTo = None \/ c.id = c.relatedTo[1].id)
    THEN "localAndRemote"
    ELSE IF c.isIntegrated THEN "integrated"
    ELSE "local"

\* Commit.status
status(c) ==
    IF c.isIntegrated THEN "integrated"
    ELSE IF c.isRemote /\ (c.relatedTo = None \/ c.id = c.relatedTo[1].id)
         THEN "localAndRemote"
    ELSE "local"

commitCompareNoTruthy(left, right) ==
    IF left.id = right.id THEN TRUE
    ELSE IF left.changeId = right.changeId THEN TRUE
    ELSE FALSE

\* commitCompare(left, right); a changeId is truthy when it is not ""
commitCompare(left, right) ==
    IF left.id = right.id THEN TRUE
    ELSE IF left.changeId # "" /\ right.changeId # "" /\ left.changeId = right.changeId
         THEN TRUE
    ELSE FALSE

(***************************************************************************)
(* Branch                                                                  *)
(***************************************************************************)

Branches == [class : {"Branch"}, commits : SeqsUpTo(Commits, MaxCommits)]

\* Array.prototype.filter
Filter(seq, Test(_)) == SelectSeq(seq, Test)

\* Branch.localCommits
localCommits(b) == LET t(c) == status(c) = "local" IN Filter(b.commits, t)

remoteCommitsByRemote(b) == LET t(c) == status(c) = "remote" IN Filter(b.commits, t)

\* Branch.remoteCommits
remoteCommits(b) == LET t(c) == status(c) = "localAndRemote" IN Filter(b.commits, t)

\* Branch.integratedCommits
integratedCommits(b) == LET t(c) == status(c) = "integrated" IN Filter(b.commits, t)

\* c.status is read for one commit of the branch
GetStatus ==
    /\ \E i \in 1..Len(branch.commits) :
          /\ call' = [op |-> "status", commit |-> branch.commits[i]]
          /\ ret' = status(branch.commits[i])
    /\ UNCHANGED <<branch, remoteBranchData, localFile, baseBranch>>

GetLocalCommits ==
    /\ call' = [op |-> "localCommits"]
    /\ ret' = localCommits(branch)
    /\ UNCHANGED <<branch, remoteBranchData, localFile, baseBranch>>

GetRemoteCommits ==
    /\ call' = [op |-> "remoteCommits"]
    /\ ret' = remoteCommits(branch)
    /\ UNCHANGED <<branch, remoteBranchData, localFile, baseBranch>>

GetIntegratedCommits ==
    /\ call' = [op |-> "integratedCommits"]
    /\ ret' = integratedCommits(branch)
    /\ UNCHANGED <<branch, remoteBranchData, localFile, baseBranch>>

\* A Branch has arrived from the backend (plainToInstance); it is replaced
\* wholesale, never patched, so each instance is inspected on its own.
InitBranch ==
    /\ branch \in Branches
    /\ remoteBranchData = NoObject
    /\ localFile = NoObject
    /\ baseBranch = NoObject
    /\ call = [op |-> "Branch"]
    /\ ret = None

NextBranch ==
    \/ GetStatus
    \/ GetLocalCommits
    \/ GetRemoteCommits
    \/ GetIntegratedCommits

SpecBranch == InitBranch /\ [][NextBranch]_vars

\* The subsequence of seq at the indices S, in increasing index order
RECURSIVE Restrict(_, _)
Restrict(seq, S) ==
    IF S = {} THEN <<>>
    ELSE LET m == CHOOSE i \in S : \A j \in S : i <= j
         IN  <<seq[m]>> \o Restrict(seq, S \ {m})

\* The positions of the branch's commits whose status is st
IndicesWithStatus(st) ==
    {i \in 1..Len(branch.commits) : status(branch.commits[i]) = st}

\* C1: Commit.status is 'integrated' whenever isIntegrated, whatever the other
\* fields; otherwise 'localAndRemote' when isRemote and relatedTo is absent or
\* has the commit's own id; otherwise 'local'; and it is never 'remote'.
C1_StatusPrecedence ==
    call.op = "status" =>
        LET c == call.commit
            sameOrAbsent == c.relatedTo = None \/ c.relatedTo[1].id = c.id
        IN  /\ c.isIntegrated => ret = "integrated"
            /\ (~c.isIntegrated /\ c.isRemote /\ sameOrAbsent) => ret = "localAndRemote"
            /\ (~c.isIntegrated /\ ~(c.isRemote /\ sameOrAbsent)) => ret = "local"
            /\ ret # "remote"

\* C1 witness: an integrated commit that is also remote and related to a
\* remote commit of another id has had its status read as 'integrated'.
C1_Witness ==
    /\ call.op = "status"
    /\ call.commit.isIntegrated
    /\ call.commit.isRemote
    /\ call.commit.relatedTo # None
    /\ call.commit.relatedTo[1].id # call.commit.id
    /\ ret = "integrated"

\* C9: localCommits, remoteCommits and integratedCommits partition the
\* branch's commits by status: every position falls under exactly one of the
\* three statuses, each getter returns exactly the commits of its status in
\* their original relative order, and no commit is in two collections.
C9_CommitPartition ==
    LET cs == branch.commits
        L == IndicesWithStatus("local")
        R == IndicesWithStatus("localAndRemote")
        I == IndicesWithStatus("integrated")
        elems(q) == {q[i] : i \in 1..Len(q)}
    IN  /\ L \cup R \cup I = 1..Len(cs)
        /\ L \cap R = {} /\ L \cap I = {} /\ R \cap I = {}
        /\ call.op = "localCommits" => ret = Restrict(cs, L)
        /\ call.op = "remoteCommits" => ret = Restrict(cs, R)
        /\ call.op = "integratedCommits" => ret = Restrict(cs, I)
        /\ Len(localCommits(branch)) + Len(remoteCommits(branch))
              + Len(integratedCommits(branch)) = Len(cs)
        /\ elems(localCommits(branch)) \cap elems(remoteCommits(branch)) = {}
        /\ elems(localCommits(branch)) \cap elems(integratedCommits(branch)) = {}
        /\ elems(remoteCommits(branch)) \cap elems(integratedCommits(branch)) = {}

\* C9 witness: remoteCommits was read on a branch holding a local commit
\* followed by a pushed one, and returned just the pushed one.
C9_Witness ==
    /\ call.op = "remoteCommits"
    /\ Len(branch.commits) = 2
    /\ status(branch.commits[1]) = "local"
    /\ status(branch.commits[2]) = "localAndRemote"
    /\ ret = <<branch.commits[2]>>

\* commitCompare is applied to two commits, local or remote
CallCommitCompare ==
    /\ \E left \in AnyCommits, right \in AnyCommits :
          /\ call' = [op |-> "commitCompare", left |-> left, right |-> right]
          /\ ret' = commitCompare(left, right)
    /\ UNCHANGED <<branch, remoteBranchData, localFile, baseBranch>>

InitCompare ==
    /\ branch = NoObject
    /\ remoteBranchData = NoObject
    /\ localFile = NoObject
    /\ baseBranch = NoObject
    /\ call = [op |-> "none"]
    /\ ret = None

NextCompare == CallCommitCompare

SpecCompare == InitCompare /\ [][NextCompare]_vars

\* C2: commitCompare is reflexive and symmetric, and is true exactly when the
\* ids are equal or both changeIds are non-empty and equal.
C2_CommitCompare ==
    call.op = "commitCompare" =>
        LET l == call.left
            r == call.right
        IN  /\ ret = (l.id = r.id \/ (l.changeId # "" /\ r.changeId # ""
                                       /\ l.changeId = r.changeId))
            /\ commitCompare(r, l) = ret
            /\ commitCompare(l, l)
            /\ commitCompare(r, r)

\* C2 witness: a local and a remote commit of different ids sharing a
\* non-empty changeId compared equal.
C2_Witness ==
    /\ call.op = "commitCompare"
    /\ call.left.class = "Commit"
    /\ call.right.class = "RemoteCommit"
    /\ call.left.id # call.right.id
    /\ call.left.changeId = "x"
    /\ call.right.changeId = "x"
    /\ ret = TRUE

(***************************************************************************)
(* RemoteBranchData                                                        *)
(***************************************************************************)

MaxRemoteCommits == 3

\* Author.email is optional; two authors may share an email under two names
Emails == {None, Some("ann@x.io"), Some("bob@x.io")}
AuthorNames == {"Ann", "Bob"}
Authors == [email : Emails, name : AuthorNames]

RemoteBranchDatas ==
    [class : {"RemoteBranchData"},
     commits : SeqsUpTo([class : {"RemoteCommit"}, author : Authors], MaxRemoteCommits)]

\* Array.prototype.map
Map(seq, F(_)) == [i \in 1..Len(seq) |-> F(seq[i])]

\* Array.prototype.findIndex: the zero-based index of the first element
\* passing the test, -1 when there is none
FindIndex(seq, Test(_)) ==
    IF \E i \in 1..Len(seq) : Test(seq[i])
    THEN (CHOOSE i \in 1..Len(seq) : Test(seq[i]) /\ \A j \in 1..(i - 1) : ~Test(seq[j])) - 1
    ELSE -1

\* Array.prototype.findLastIndex
FindLastIndex(seq, Test(_)) ==
    IF \E i \in 1..Len(seq) : Test(seq[i])
    THEN (CHOOSE i \in 1..Len(seq) : Test(seq[i]) /\ \A j \in (i + 1)..Len(seq) : ~Test(seq[j])) - 1
    ELSE -1

\* Array.prototype.filter with the (element, index) callback; the index
\* handed to the callback is zero-based
FilterIndexed(seq, Test(_, _)) ==
    LET kept[n \in 0..Len(seq)] ==
            IF n = 0 THEN <<>>
            ELSE kept[n - 1] \o (IF Test(seq[n], n - 1) THEN <<seq[n]>> ELSE <<>>)
    IN  kept[Len(seq)]

authorsLastWins(d) ==
    LET author(commit) == commit.author
        allAuthors == Map(d.commits, author)
        unique(a, index) ==
            LET sameEmail(b) == b.email = a.email
            IN  FindLastIndex(allAuthors, sameEmail) = index
    IN  FilterIndexed(allAuthors, unique)

\* RemoteBranchData.authors
authors(d) ==
    LET author(commit) == commit.author
        allAuthors == Map(d.commits, author)
        unique(a, index) ==
            LET sameEmail(b) == b.email = a.email
            IN  FindIndex(allAuthors, sameEmail) = index
    IN  FilterIndexed(allAuthors, unique)

GetAuthors ==
    /\ call' = [op |-> "authors"]
    /\ ret' = authors(remoteBranchData)
    /\ UNCHANGED <<branch, remoteBranchData, localFile, baseBranch>>

\* RemoteBranchData.ahead
ahead(d) == Len(d.commits)

GetAhead ==
    /\ call' = [op |-> "ahead"]
    /\ ret' = ahead(remoteBranchData)
    /\ UNCHANGED <<branch, remoteBranchData, localFile, baseBranch>>

\* A RemoteBranchData has arrived from the backend
InitRemote ==
    /\ branch = NoObject
    /\ remoteBranchData \in RemoteBranchDatas
    /\ localFile = NoObject
    /\ baseBranch = NoObject
    /\ call = [op |-> "RemoteBranchData"]
    /\ ret = None

NextRemote ==
    \/ GetAuthors
    \/ GetAhead

SpecRemote == InitRemote /\ [][NextRemote]_vars

\* The position of the first commit whose author bears the email e
FirstCommitWith(e) ==
    CHOOSE i \in 1..Len(remoteBranchData.commits) :
        /\ remoteBranchData.commits[i].author.email = e
        /\ \A j \in 1..(i - 1) : remoteBranchData.commits[j].author.email # e

\* C8: authors holds each distinct author email of the commits exactly once,
\* each entry being the author of the first commit bearing that email, the
\* entries ordered by those first occurrences; no email is missing.
C8_AuthorsDedup ==
    call.op = "authors" =>
        LET cs == remoteBranchData.commits
            emails == {cs[i].author.email : i \in 1..Len(cs)}
        IN  /\ {ret[k].email : k \in 1..Len(ret)} = emails
            /\ \A k, m \in 1..Len(ret) : k # m => ret[k].email # ret[m].email
            /\ \A k \in 1..Len(ret) : ret[k] = cs[FirstCommitWith(ret[k].email)].author
            /\ \A k, m \in 1..Len(ret) :
                  k < m => FirstCommitWith(ret[k].email) < FirstCommitWith(ret[m].email)

\* C8 witness: authors was read where an email occurs twice under two names
\* between commits of another email, and the first name was kept.
C8_Witness ==
    /\ call.op = "authors"
    /\ Len(remoteBranchData.commits) = 3
    /\ remoteBranchData.commits[1].author = [email |-> Some("ann@x.io"), name |-> "Ann"]
    /\ remoteBranchData.commits[2].author = [email |-> Some("bob@x.io"), name |-> "Bob"]
    /\ remoteBranchData.commits[3].author = [email |-> Some("ann@x.io"), name |-> "Bob"]
    /\ ret = <<[email |-> Some("ann@x.io"), name |-> "Ann"],
               [email |-> Some("bob@x.io"), name |-> "Bob"]>>

(***************************************************************************)
(* LocalFile                                                               *)
(***************************************************************************)

MaxHunks == 2
MaxLocks == 1

\* An entry of Hunk.lockedTo: a HunkLock, or a null / undefined hole
NullEntry == [tag |-> "null"]
UndefinedEntry == [tag |-> "undefined"]
HunkLocks == [tag : {"HunkLock"}, branchId : {"br"}, commitId : {"a1", "b2"}]
LockEntries == HunkLocks \cup {NullEntry, UndefinedEntry}

Hunks == [class : {"Hunk"}, locked : BOOLEAN, lockedTo : SeqsUpTo(LockEntries, MaxLocks)]
LocalFiles == [class : {"LocalFile"}, hunks : SeqsUpTo(Hunks, MaxHunks)]

\* Array.prototype.reduce with an initial value
Reduce(seq, F(_, _), initial) ==
    LET acc[n \in 0..Len(seq)] ==
            IF n = 0 THEN initial ELSE F(acc[n - 1], seq[n])
    IN  acc[Len(seq)]

\* Array.prototype.flatMap
FlatMap(seq, F(_)) ==
    LET flat[n \in 0..Len(seq)] ==
            IF n = 0 THEN <<>> ELSE flat[n - 1] \o F(seq[n])
    IN  flat[Len(seq)]

\* notNull and isDefined of $lib/utils/typeguards
notNull(x) == x # NullEntry
isDefined(x) == x # UndefinedEntry

\* LocalFile.locked (the hunks array, even when empty, is truthy)
locked(f) ==
    LET lockedOf(hunk) == hunk.locked
        or(a, b) == a \/ b
    IN  Reduce(Map(f.hunks, lockedOf), or, FALSE)

lockedIdsKeepUndefined(f) ==
    LET lockedToOf(hunk) == hunk.lockedTo
    IN  Filter(FlatMap(f.hunks, lockedToOf), notNull)

\* LocalFile.lockedIds
lockedIds(f) ==
    LET lockedToOf(hunk) == hunk.lockedTo
    IN  Filter(Filter(FlatMap(f.hunks, lockedToOf), notNull), isDefined)

GetLocked ==
    /\ call' = [op |-> "locked"]
    /\ ret' = locked(localFile)
    /\ UNCHANGED <<branch, remoteBranchData, localFile, baseBranch>>

GetLockedIds ==
    /\ call' = [op |-> "lockedIds"]
    /\ ret' = lockedIds(localFile)
    /\ UNCHANGED <<branch, remoteBranchData, localFile, baseBranch>>

\* A LocalFile has arrived from the backend
InitFile ==
    /\ branch = NoObject
    /\ remoteBranchData = NoObject
    /\ localFile \in LocalFiles
    /\ baseBranch = NoObject
    /\ call = [op |-> "LocalFile"]
    /\ ret = None

NextFile ==
    \/ GetLocked
    \/ GetLockedIds

SpecFile == InitFile /\ [][NextFile]_vars

\* The lock entries of the hunks from position i on, hunk by hunk and in each
\* hunk's own order, holes left out
RECURSIVE LocksFrom(_, _)
LocksFrom(hs, i) ==
    IF i > Len(hs) THEN <<>>
    ELSE LET lt == hs[i].lockedTo
             kept == {k \in 1..Len(lt) : lt[k].tag = "HunkLock"}
         IN  Restrict(lt, kept) \o LocksFrom(hs, i + 1)

\* C10: locked is true exactly when some hunk has locked = true (false for a
\* file without hunks), and lockedIds is the concatenation in hunk order of
\* the hunks' lockedTo entries with null and undefined entries removed.
C10_LockedFile ==
    /\ call.op = "locked" =>
          ret = (\E i \in 1..Len(localFile.hunks) : localFile.hunks[i].locked)
    /\ call.op = "lockedIds" => ret = LocksFrom(localFile.hunks, 1)

\* C10 witness: lockedIds was read on a file of two hunks, the first holding
\* a lock and the second an undefined hole, only the second hunk locked.
C10_Witness ==
    /\ call.op = "lockedIds"
    /\ Len(localFile.hunks) = 2
    /\ ~localFile.hunks[1].locked
    /\ localFile.hunks[2].locked
    /\ localFile.hunks[1].lockedTo = <<[tag |-> "HunkLock", branchId |-> "br", commitId |-> "b2"]>>
    /\ localFile.hunks[2].lockedTo = <<UndefinedEntry>>
    /\ ret = <<[tag |-> "HunkLock", branchId |-> "br", commitId |-> "b2"]>>

(***************************************************************************)
(* BaseBranch: the pushRemoteUrl transform, afterTransform, commitUrl and  *)
(* branchUrl                                                               *)
(***************************************************************************)

MaxRuns == 2

\* A URL of the payload, by its syntactic parts; "" and an unparsable text
\* are URLs of their own kind.
Url(protocol, user, resource, organization, owner, name) ==
    [tag |-> "url", protocol |-> protocol, user |-> user, resource |-> resource,
     organization |-> organization, owner |-> owner, name |-> name]
EmptyUrl == [tag |-> "empty"]
MalformedUrl == [tag |-> "malformed"]

\* remoteUrl is a required field the backend fills with the fetch remote
RemoteUrls ==
    {Url("ssh", "git", "github.com", "", "owner", "repo"),
     Url("https", "", "gitlab.com", "", "owner", "repo"),
     Url("ssh", "git", "bitbucket.org", "", "owner", "repo"),
     Url("https", "", "dev.azure.com", "org", "project", "repo"),
     Url("https", "", "git.example.org", "", "owner", "repo"),
     Url("https", "", "10.0.0.7", "", "owner", "repo"),
     Url("https", "", "gitlab.com.github.com", "", "owner", "repo"),
     Url("https", "", "dev.azure.com.bitbucket.org", "", "owner", "repo")}

\* pushRemoteUrl is optional: absent, or any text
PushRemoteUrls ==
    {None, Some(EmptyUrl), Some(MalformedUrl),
     Some(Url("ssh", "git", "github.com", "", "forker", "fork")),
     Some(Url("https", "", "gitlab.com", "", "forker", "fork")),
     Some(Url("ssh", "git", "ssh.dev.azure.com", "pushorg", "pushproject", "fork")),
     Some(Url("https", "", "ssh.example.org", "", "forker", "fork")),
     Some(Url("https", "", "10.0.0.8", "", "forker", "fork"))}

BranchNames == {"origin/master", "master"}
RemoteNames == {"origin"}
PushRemoteNames == {"", "fork"}
UpstreamNames ==
    {None, Some(""), Some("refs/remotes/origin/feature"),
     Some("refs/remotes/fork/feat/x"), Some("feature")}

\* What a call leaves behind: a returned value, or a thrown error
Returned(v) == [threw |-> FALSE, value |-> v]
Threw == [threw |-> TRUE, value |-> None]

\* GitUrlParse (git-url-parse): the descriptor of a URL. The library is not
\* part of the sources: on a text it cannot parse it either throws or
\* returns a descriptor of empty parts, depending on its version; it never
\* returns undefined.
GitUrlParse(u) ==
    IF u.tag = "url"
    THEN {Returned([protocol |-> u.protocol, user |-> u.user, resource |-> u.resource,
                    organization |-> u.organization, owner |-> u.owner, name |-> u.name])}
    ELSE {Threw,
          Returned([protocol |-> "file", user |-> "", resource |-> "",
                    organization |-> "", owner |-> "", name |-> ""])}

pushRemoteUrlTransformTolerant(value) ==
    IF value # None /\ value[1].tag = "url"
    THEN {Returned(Some(r.value)) : r \in GitUrlParse(value[1])}
    ELSE {Returned(None)}

\* @Transform(({ value }) => (value ? GitUrlParse(value) : undefined)):
\* undefined and "" are falsy, every other text is handed to GitUrlParse
pushRemoteUrlTransform(value) ==
    IF value # None /\ value[1] # EmptyUrl
    THEN {IF r.threw THEN Threw ELSE Returned(Some(r.value)) : r \in GitUrlParse(value[1])}
    ELSE {Returned(None)}

\* ipv4Regex.test of $lib/utils/url: the text is four groups of digits
\* separated by dots
ipv4Test(resource) ==
    LET parts == Split(resource, ".")
        digits(p) == Len(p) > 0 /\ \A i \in 1..Len(p) :
                        SubSeq(p, i, i) \in {"0", "1", "2", "3", "4", "5", "6", "7", "8", "9"}
    IN  Len(parts) = 4 /\ \A k \in 1..4 : digits(parts[k])

getForgeTypeGitLabFirst(repoBaseUrl) ==
    IF Includes(repoBaseUrl, "gitlab.com") THEN "GitLab"
    ELSE IF Includes(repoBaseUrl, "github.com") THEN "GitHub"
    ELSE IF Includes(repoBaseUrl, "bitbucket.org") THEN "Bitbucket"
    ELSE IF Includes(repoBaseUrl, "dev.azure.com") THEN "AzureDevOps"
    ELSE "Unknown"

\* BaseBranch.getForgeType: switch (true), the cases tried in order
getForgeType(repoBaseUrl) ==
    IF Includes(repoBaseUrl, "github.com") THEN "GitHub"
    ELSE IF Includes(repoBaseUrl, "gitlab.com") THEN "GitLab"
    ELSE IF Includes(repoBaseUrl, "bitbucket.org") THEN "Bitbucket"
    ELSE IF Includes(repoBaseUrl, "dev.azure.com") THEN "AzureDevOps"
    ELSE "Unknown"

\* The BaseBranch instance plainToInstance builds from a payload; the derived
\* fields and the two generators are still undefined. pushRemoteUrl keeps the
\* payload's text for reference.
NewBaseBranch(branchName, remoteName, pushRemoteName, remoteUrl, pushRemoteUrl, outcome) ==
    [class |-> "BaseBranch",
     phase |-> IF outcome.threw THEN "threw" ELSE "constructed",
     runs |-> 0,
     branchName |-> branchName,
     remoteName |-> remoteName,
     pushRemoteName |-> pushRemoteName,
     remoteUrl |-> remoteUrl,
     pushRemoteUrl |-> pushRemoteUrl,
     gitPushRemote |-> outcome.value,
     forgeType |-> None,
     repoBaseUrl |-> None,
     commitBaseUrl |-> None,
     actualPushRemoteName |-> None,
     generateCommitUrl |-> None,
     generateBranchUrl |-> None]

\* The web address the commit links start with (afterTransform, inside
\* if (this.gitPushRemote)): the host loses a leading "ssh." when the push
\* remote's protocol is ssh; the protocol is tested on the host as parsed.
commitBaseUrlFor(forgeType, push) ==
    LET webProtocol == IF ipv4Test(push.resource) THEN "http" ELSE "https"
        resource == IF push.protocol = "ssh" /\ StartsWith(push.resource, "ssh.")
                    THEN SliceStr(push.resource, 4)
                    ELSE push.resource
    IN  IF forgeType = "AzureDevOps"
        THEN webProtocol \o "://" \o resource \o "/" \o push.organization \o "/"
                 \o push.owner \o "/_git/" \o push.name
        ELSE webProtocol \o "://" \o resource \o "/" \o push.owner \o "/" \o push.name

generateCommitUrlForAllCommit(forgeType) == [path |-> "/commit/"]

\* The commit-URL closure chosen by the switch on forgeType; it is kept as
\* the path it inserts
generateCommitUrlFor(forgeType) ==
    CASE forgeType = "Bitbucket" -> [path |-> "/commits/"]
      [] forgeType = "GitLab" -> [path |-> "/-/commit/"]
      [] OTHER -> [path |-> "/commit/"]

\* Calling the commit-URL closure: it reads this.commitBaseUrl when called
CallGenerateCommitUrl(self, commitId) ==
    Render(self.commitBaseUrl) \o self.generateCommitUrl[1].path \o commitId

generateBranchUrlForAnyForge(self) ==
    LET push == self.gitPushRemote[1]
    IN  IF self.pushRemoteName # ""
        THEN Some([form |-> "fork", pushUsername |-> push.user, pushRepoName |-> push.name])
        ELSE Some([form |-> "compare"])

generateBranchUrlForFirstRunOnly(self) ==
    LET push == self.gitPushRemote[1]
    IN  IF self.generateBranchUrl = None
             /\ self.pushRemoteName # "" /\ self.forgeType = Some("GitHub")
        THEN Some([form |-> "fork", pushUsername |-> push.user,
                   pushRepoName |-> push.name])
        ELSE CASE self.forgeType = Some("Bitbucket") -> Some([form |-> "branch"])
               [] self.forgeType = Some("AzureDevOps") -> Some([form |-> "branchCompare"])
               [] OTHER -> Some([form |-> "compare"])

\* The branch-URL closure afterTransform leaves in generateBranchUrl, inside
\* the second if (this.gitPushRemote); the fork form captures the push
\* remote's user and name, and a closure already present is kept.
generateBranchUrlFor(self) ==
    LET push == self.gitPushRemote[1]
        forked ==
            IF self.pushRemoteName # "" /\ self.forgeType = Some("GitHub")
            THEN Some([form |-> "fork", pushUsername |-> push.user,
                       pushRepoName |-> push.name])
            ELSE self.generateBranchUrl
    IN  IF forked # None THEN forked
        ELSE CASE self.forgeType = Some("Bitbucket") -> Some([form |-> "branch"])
               [] self.forgeType = Some("AzureDevOps") -> Some([form |-> "branchCompare"])
               [] OTHER -> Some([form |-> "compare"])

\* Calling the branch-URL closure: it reads this.repoBaseUrl and
\* this.commitBaseUrl when called
CallGenerateBranchUrl(self, baseBranchName, branchName) ==
    LET gen == self.generateBranchUrl[1]
    IN  CASE gen.form = "fork" ->
                Render(self.repoBaseUrl) \o "/compare/" \o baseBranchName \o "..."
                    \o gen.pushUsername \o ":" \o gen.pushRepoName \o ":" \o branchName
          [] gen.form = "branch" ->
                Render(self.repoBaseUrl) \o "/branch/" \o branchName \o "?dest="
                    \o baseBranchName
          [] gen.form = "branchCompare" ->
                Render(self.commitBaseUrl) \o "/branchCompare?baseVersion=GB"
                    \o baseBranchName \o "&targetVersion=GB" \o branchName
          [] OTHER ->
                Render(self.repoBaseUrl) \o "/compare/" \o baseBranchName \o "..."
                    \o branchName

\* BaseBranch.afterTransform
afterTransform(self) ==
    LET gitRemote == (CHOOSE r \in GitUrlParse(self.remoteUrl) : ~r.threw).value
        remoteUrlProtocol == IF ipv4Test(gitRemote.resource) THEN "http" ELSE "https"
        forgeType == getForgeType(gitRemote.resource)
        s1 == [self EXCEPT
                 !.repoBaseUrl = Some(remoteUrlProtocol \o "://" \o gitRemote.resource
                                         \o "/" \o gitRemote.owner \o "/" \o gitRemote.name),
                 !.forgeType = Some(forgeType),
                 !.actualPushRemoteName =
                     Some(IF self.pushRemoteName # "" THEN self.pushRemoteName
                          ELSE self.remoteName)]
        s2 == IF s1.gitPushRemote # None
              THEN [s1 EXCEPT
                      !.commitBaseUrl = Some(commitBaseUrlFor(forgeType, s1.gitPushRemote[1])),
                      !.generateCommitUrl = Some(generateCommitUrlFor(forgeType))]
              ELSE s1
        s3 == IF s2.gitPushRemote # None
              THEN [s2 EXCEPT !.generateBranchUrl = generateBranchUrlFor(s2)]
              ELSE s2
    IN  [s3 EXCEPT !.phase = "transformed", !.runs = @ + 1]

commitUrlUnguarded(self, commitId) ==
    Some(Render(self.commitBaseUrl) \o "/commit/" \o commitId)

\* BaseBranch.commitUrl
commitUrl(self, commitId) ==
    IF self.generateCommitUrl # None
    THEN Some(CallGenerateCommitUrl(self, commitId))
    ELSE None

\* BaseBranch.branchUrl; upstreamBranchName is falsy when undefined or ""
branchUrl(self, upstreamBranchName) ==
    IF \/ upstreamBranchName = None
       \/ upstreamBranchName[1] = ""
       \/ self.gitPushRemote = None
       \/ self.generateBranchUrl = None
    THEN None
    ELSE LET baseBranchName == Render(At(Split(self.branchName, "/"), 1))
             branchName == Join(SliceSeq(Split(upstreamBranchName[1], "/"), 3), "/")
         IN  Some(CallGenerateBranchUrl(self, baseBranchName, branchName))

Phase == IF baseBranch = NoObject THEN "none" ELSE baseBranch.phase

\* plainToInstance(BaseBranch, payload): the pushRemoteUrl transform runs;
\* when it throws, no instance comes into being
Deserialize ==
    /\ Phase = "none"
    /\ \E branchName \in BranchNames, remoteName \in RemoteNames,
          pushRemoteName \in PushRemoteNames, remoteUrl \in RemoteUrls,
          pushRemoteUrl \in PushRemoteUrls :
          \E outcome \in pushRemoteUrlTransform(pushRemoteUrl) :
             baseBranch' = NewBaseBranch(branchName, remoteName, pushRemoteName,
                                         remoteUrl, pushRemoteUrl, outcome)
    /\ call' = [op |-> "deserialize"]
    /\ ret' = None
    /\ UNCHANGED <<branch, remoteBranchData, localFile>>

\* The post-deserialization hook
AfterTransform ==
    /\ Phase \in {"constructed", "transformed"}
    /\ baseBranch.runs < MaxRuns
    /\ baseBranch' = afterTransform(baseBranch)
    /\ call' = [op |-> "afterTransform"]
    /\ ret' = None
    /\ UNCHANGED <<branch, remoteBranchData, localFile>>

CommitUrl ==
    /\ Phase = "transformed"
    /\ \E commitId \in CommitIds :
          /\ call' = [op |-> "commitUrl", commitId |-> commitId]
          /\ ret' = commitUrl(baseBranch, commitId)
    /\ UNCHANGED <<branch, remoteBranchData, localFile, baseBranch>>

BranchUrl ==
    /\ Phase = "transformed"
    /\ \E upstreamBranchName \in UpstreamNames :
          /\ call' = [op |-> "branchUrl", upstreamBranchName |-> upstreamBranchName]
          /\ ret' = branchUrl(baseBranch, upstreamBranchName)
    /\ UNCHANGED <<branch, remoteBranchData, localFile, baseBranch>>

\* No BaseBranch has been fetched yet
InitBase ==
    /\ branch = NoObject
    /\ remoteBranchData = NoObject
    /\ localFile = NoObject
    /\ baseBranch = NoObject
    /\ call = [op |-> "none"]
    /\ ret = None

NextBase ==
    \/ Deserialize
    \/ AfterTransform
    \/ CommitUrl
    \/ BranchUrl

SpecBase == InitBase /\ [][NextBase]_vars

\* The forge the claims expect for a host: the earliest of the four markers,
\* in their fixed order, that the host contains
ForgeMarkers == <<"github.com", "gitlab.com", "bitbucket.org", "dev.azure.com">>
ForgeOfMarker == <<"GitHub", "GitLab", "Bitbucket", "AzureDevOps">>
ExpectedForge(host) ==
    LET matching == {k \in 1..4 : Includes(host, ForgeMarkers[k])}
    IN  IF matching = {} THEN "Unknown"
        ELSE ForgeOfMarker[CHOOSE k \in matching : \A m \in matching : k <= m]

\* C3: after afterTransform, forgeType depends on the host of remoteUrl alone:
\* the earliest of github.com, gitlab.com, bitbucket.org, dev.azure.com the
\* host contains decides, and a host with none of them is Unknown.
C3_ForgeFromRemoteHost ==
    Phase = "transformed" =>
        baseBranch.forgeType = Some(ExpectedForge(baseBranch.remoteUrl.resource))

\* C3 witness: a host holding gitlab.com before github.com, with a push
\* remote on another forge's host, was classified GitHub.
C3_Witness ==
    /\ Phase = "transformed"
    /\ baseBranch.remoteUrl.resource = "gitlab.com.github.com"
    /\ baseBranch.gitPushRemote # None
    /\ baseBranch.gitPushRemote[1].resource = "ssh.dev.azure.com"
    /\ baseBranch.pushRemoteName = "fork"
    /\ baseBranch.forgeType = Some("GitHub")

\* The commit base URL the claims expect: built from the push remote's parts,
\* the host without a leading "ssh." of an ssh remote, http for an IPv4 host
ExpectedCommitBaseUrl ==
    LET push == baseBranch.gitPushRemote[1]
        protocol == IF ipv4Test(push.resource) THEN "http" ELSE "https"
        host == IF push.protocol = "ssh" /\ SubSeq(push.resource, 1, 4) = "ssh."
                THEN SubSeq(push.resource, 5, Len(push.resource))
                ELSE push.resource
    IN  IF baseBranch.forgeType = Some("AzureDevOps")
        THEN Join(<<protocol \o ":/", host, push.organization, push.owner, "_git", push.name>>, "/")
        ELSE Join(<<protocol \o ":/", host, push.owner, push.name>>, "/")

\* C4: with a push-remote descriptor, commitUrl(id) is defined and is
\* commitBaseUrl followed by /commits/{id} for Bitbucket, /-/commit/{id} for
\* GitLab and /commit/{id} for the other forges, commitBaseUrl being built
\* from the push remote's parts (with organization and _git for AzureDevOps).
C4_CommitUrl ==
    (Phase = "transformed" /\ baseBranch.gitPushRemote # None) =>
        LET forge == baseBranch.forgeType[1]
            path == IF forge = "Bitbucket" THEN "/commits/"
                    ELSE IF forge = "GitLab" THEN "/-/commit/"
                    ELSE "/commit/"
        IN  /\ baseBranch.commitBaseUrl = Some(ExpectedCommitBaseUrl)
            /\ call.op = "commitUrl" =>
                  ret = Some(ExpectedCommitBaseUrl \o path \o call.commitId)

\* C4 witness: commitUrl was called on a GitLab base branch whose push remote
\* is an ssh Azure host, and returned the GitLab form on the stripped host.
C4_Witness ==
    /\ Phase = "transformed"
    /\ call.op = "commitUrl"
    /\ call.commitId = "a1"
    /\ baseBranch.forgeType = Some("GitLab")
    /\ baseBranch.gitPushRemote # None
    /\ baseBranch.gitPushRemote[1].resource = "ssh.dev.azure.com"
    /\ ret = Some("https://dev.azure.com/pushproject/fork/-/commit/a1")

\* C5: with a push-remote descriptor and a non-empty upstreamName, branchUrl
\* returns the fork-compare form when pushRemoteName is set and the forge is
\* GitHub, and otherwise the form of the forge; base is the second
\* slash-segment of branchName and branch is upstreamName without its first
\* three slash-segments.
C5_BranchUrl ==
    (/\ Phase = "transformed"
     /\ baseBranch.gitPushRemote # None
     /\ call.op = "branchUrl"
     /\ call.upstreamBranchName # None
     /\ call.upstreamBranchName[1] # "") =>
        LET forge == baseBranch.forgeType[1]
            push == baseBranch.gitPushRemote[1]
            repo == baseBranch.repoBaseUrl[1]
            segs == Split(baseBranch.branchName, "/")
            base == IF Len(segs) >= 2 THEN segs[2] ELSE "undefined"
            upSegs == Split(call.upstreamBranchName[1], "/")
            br == Join(SubSeq(upSegs, 4, Len(upSegs)), "/")
        IN  ret = Some(
              IF baseBranch.pushRemoteName # "" /\ forge = "GitHub"
              THEN repo \o "/compare/" \o base \o "..." \o push.user \o ":" \o push.name
                       \o ":" \o br
              ELSE IF forge = "Bitbucket"
              THEN repo \o "/branch/" \o br \o "?dest=" \o base
              ELSE IF forge = "AzureDevOps"
              THEN ExpectedCommitBaseUrl \o "/branchCompare?baseVersion=GB" \o base
                       \o "&targetVersion=GB" \o br
              ELSE repo \o "/compare/" \o base \o "..." \o br)

\* C5 witness: branchUrl was called on a GitHub base branch with a named
\* push remote and returned the fork-compare form.
C5_Witness ==
    /\ Phase = "transformed"
    /\ call.op = "branchUrl"
    /\ call.upstreamBranchName = Some("refs/remotes/fork/feat/x")
    /\ baseBranch.branchName = "origin/master"
    /\ baseBranch.pushRemoteName = "fork"
    /\ baseBranch.remoteUrl.resource = "github.com"
    /\ ret = Some("https://github.com/owner/repo/compare/master...git:fork:feat/x")

\* C6: without a pushRemoteUrl in the payload, after afterTransform
\* commitBaseUrl is undefined and commitUrl and branchUrl return undefined for
\* every argument, while forgeType, repoBaseUrl and actualPushRemoteName are
\* set from remoteUrl, pushRemoteName and remoteName.
C6_NoPushRemote ==
    (Phase = "transformed" /\ baseBranch.pushRemoteUrl = None) =>
        LET remote == baseBranch.remoteUrl
            protocol == IF ipv4Test(remote.resource) THEN "http" ELSE "https"
        IN  /\ baseBranch.gitPushRemote = None
            /\ baseBranch.commitBaseUrl = None
            /\ call.op = "commitUrl" => ret = None
            /\ call.op = "branchUrl" => ret = None
            /\ baseBranch.forgeType = Some(ExpectedForge(remote.resource))
            /\ baseBranch.repoBaseUrl =
                  Some(Join(<<protocol \o ":/", remote.resource, remote.owner, remote.name>>, "/"))
            /\ baseBranch.actualPushRemoteName =
                  Some(IF baseBranch.pushRemoteName = "" THEN baseBranch.remoteName
                       ELSE baseBranch.pushRemoteName)

\* C6 witness: commitUrl was called on a base branch deserialized without a
\* push remote, on a GitHub remote, and returned undefined.
C6_Witness ==
    /\ Phase = "transformed"
    /\ baseBranch.pushRemoteUrl = None
    /\ baseBranch.repoBaseUrl = Some("https://github.com/owner/repo")
    /\ baseBranch.actualPushRemoteName = Some("origin")
    /\ call.op = "commitUrl"
    /\ ret = None

\* C7 as stated: a payload whose pushRemoteUrl is present but unparsable never
\* makes deserialization throw and leaves gitPushRemote undefined, as if the
\* field had been omitted.
C7_MalformedPushTolerated ==
    (Phase # "none" /\ baseBranch.pushRemoteUrl = Some(MalformedUrl)) =>
        (baseBranch.phase # "threw" /\ baseBranch.gitPushRemote = None)

\* C7 amended: only an absent or empty pushRemoteUrl is treated as absent
\* (gitPushRemote undefined, nothing thrown); an unparsable one goes to
\* GitUrlParse unguarded, so deserialization throws or gitPushRemote holds
\* the descriptor the parser returned, never undefined.
C7_OnlyFalsyPushIsAbsent ==
    Phase # "none" =>
        /\ baseBranch.pushRemoteUrl \in {None, Some(EmptyUrl)} =>
              (baseBranch.phase # "threw" /\ baseBranch.gitPushRemote = None)
        /\ baseBranch.pushRemoteUrl = Some(MalformedUrl) =>
              (baseBranch.phase = "threw" \/ baseBranch.gitPushRemote # None)

\* C7 witness: deserializing a payload with an unparsable pushRemoteUrl threw.
C7_Witness ==
    /\ Phase = "threw"
    /\ baseBranch.pushRemoteUrl = Some(MalformedUrl)

\* C11: afterTransform is idempotent on unchanged stored fields: a run on an
\* instance it has already transformed leaves forgeType, repoBaseUrl,
\* commitBaseUrl and actualPushRemoteName as they were, and commitUrl(id) and
\* branchUrl(name) return afterwards what they returned before, for every
\* forge, pushRemoteName and push remote.
C11_AfterTransformIdempotent ==
    [][(/\ Phase = "transformed"
        /\ baseBranch'.runs = baseBranch.runs + 1) =>
           /\ baseBranch'.forgeType = baseBranch.forgeType
           /\ baseBranch'.repoBaseUrl = baseBranch.repoBaseUrl
           /\ baseBranch'.commitBaseUrl = baseBranch.commitBaseUrl
           /\ baseBranch'.actualPushRemoteName = baseBranch.actualPushRemoteName
           /\ \A commitId \in CommitIds :
                 commitUrl(baseBranch', commitId) = commitUrl(baseBranch, commitId)
           /\ \A name \in UpstreamNames :
                 branchUrl(baseBranch', name) = branchUrl(baseBranch, name)]_vars

\* C11 witness: after a second run of afterTransform on a GitHub base branch
\* with a named push remote, branchUrl returned the fork-compare form.
C11_Witness ==
    /\ Phase = "transformed"
    /\ baseBranch.runs = 2
    /\ baseBranch.pushRemoteName = "fork"
    /\ baseBranch.remoteUrl.resource = "github.com"
    /\ baseBranch.branchName = "origin/master"
    /\ call.op = "branchUrl"
    /\ call.upstreamBranchName = Some("refs/remotes/origin/feature")
    /\ ret = Some("https://github.com/owner/repo/compare/master...git:fork:feature")

====
